---- MODULE Spec2Model ----
(***************************************************************************)
(* Credential and token lifecycle of the midterm-auth backend              *)
(* (src/backend/server.js, src/backend/middleware/authMiddleware.js).      *)
(*                                                                         *)
(* Every Express handler is an async function: it runs atomically up to    *)
(* its first store call, and again between two store calls.  A handler is  *)
(* therefore one action per store call; the code that runs before the      *)
(* first store call (middleware, validation) and the local code after a    *)
(* store call (bcrypt, crypto, jwt, res.status().json()) belong to the     *)
(* action of that store call.  Requests interleave at the store calls.     *)
(***************************************************************************)
EXTENDS Integers, Sequences, FiniteSets, Bags, TLC

\* ---------------------------------------------------------------- bounds
MaxReq == 2         \* requests the server receives in one run
MaxSecrets == MaxReq + 1         \* reset secrets crypto.randomBytes can hand out

\* ------------------------------------------------------- program constants
SessionTTL == 1     \* expiresIn: '1h', in hours
ResetTTL == 1       \* Date.now() + 3600000, in hours
MaxTime == SessionTTL + 1        \* the clock runs 0..MaxTime: to an hour past expiry

\* ------------------------------------------------------------ input values
Emails == {"a@x.com", "b@x.com"}
Passwords == {"pw1", "pw2"}
Usernames == {"alice", "bob"}
Names == {"Al"}
Missing == ""               \* an absent or empty (falsy) body field
NULL == "NULL"              \* SQL NULL in a varchar column
NoFingerprint == <<>>       \* SQL NULL in the resetToken column
NoExpiry == -1              \* SQL NULL in the resetTokenExpiry column

VARIABLES
    users,      \* the users table: a sequence of rows, id = AUTO_INCREMENT
    now,        \* the clock shared by Date.now(), NOW() and jwt
    inflight,   \* the requests in flight: a bag of handler positions with their locals
    sessions,   \* per account id, the session token its last login returned
    issuedTo,   \* issuedTo[k]: the account the k-th random reset secret was made for
    outbox,     \* what was handed to the notifier (reset links)
    okResets,   \* per reset secret, the number of reset-password requests answered 200
    written,    \* the secrets whose fingerprint forgot-password has stored, in order
    nsalt,      \* salts bcrypt.hash has drawn so far, all distinct
    nreq,       \* requests received so far
    lastResp,   \* the response the last step sent, if it sent one
    profile     \* the Profile page open in a browser: its session and React state

\* the server's side: everything but the browser's page
server == <<users, now, inflight, sessions, issuedTo, outbox, okResets, written, nsalt, nreq,
            lastResp>>

vars == <<users, now, inflight, sessions, issuedTo, outbox, okResets, written, nsalt, nreq,
          lastResp, profile>>

\* ------------------------------------------------------------ the Profile page's state
\* session.accessToken as next-auth's session callback sets it: the backend's
\* token, or nothing when the sign-in brought none
AccessTokens == {"eyJ", Missing}

\* useState({ text: '', type: '' })
NoMessage == [text |-> "", type |-> ""]

\* The component as it mounts: the useState initial values, no submission running.
Mounted(accessToken) ==
    [session |-> [accessToken |-> accessToken],
     oldPassword |-> "", newPassword |-> "",
     loading |-> FALSE, message |-> NoMessage, pc |-> "idle"]

\* ------------------------------------------------------------ crypto
\* bcrypt.hash(password, 10) with the salt it drew: one-way, and the salt is
\* part of the hash. Salts are numbered as they are stored; a salt drawn for
\* a hash that is never stored is seen by nobody.
BcryptHash(plain, salt) == <<"bcrypt", salt, plain>>

\* a compare that accepts every password
BcryptCompareAlways(plain, hash) == TRUE

\* bcrypt.compare(plain, hash): hashes plain with the salt found in hash
BcryptCompare(plain, hash) == hash = BcryptHash(plain, hash[2])

\* crypto.randomBytes(32).toString('hex'): the k-th draw, all draws distinct
RandomBytes(k) == <<"rnd", k>>

\* crypto.createHash('sha256').update(x).digest('hex'): injective and never
\* the identity: the digest of a secret is not a secret.
Sha256(x) == <<"sha256">> \o x

\* new Date(Date.now() + 3600000)
ResetExpiry(t) == t + ResetTTL

\* the HS256 signature of a payload under process.env.JWT_SECRET
HS256(id, iat, exp) == <<"HS256", id, iat, exp>>

\* jwt.sign({ id }, JWT_SECRET, { expiresIn: '1h' }) at time t
JwtSign(id, t) ==
    [id |-> id, iat |-> t, exp |-> t + SessionTTL,
     sig |-> HS256(id, t, t + SessionTTL)]

\* jwt.verify that never looks at the signature
JwtVerifyIgnoringSig(token, t) ==
    IF t >= token.exp THEN "TokenExpiredError" ELSE "none"

\* jwt.verify that never looks at exp
JwtVerifyIgnoringExp(token, t) ==
    IF token.sig # HS256(token.id, token.iat, token.exp) THEN "JsonWebTokenError"
    ELSE "none"

\* jwt.verify(token, JWT_SECRET) at time t: the error it throws, or "none"
JwtVerify(token, t) ==
    IF token.sig # HS256(token.id, token.iat, token.exp) THEN "JsonWebTokenError"
    ELSE IF t >= token.exp THEN "TokenExpiredError"
    ELSE "none"

\* ------------------------------------------------------------ auth middleware
\* An Authorization header is the text pre ++ jwt; a request may carry none.
NoHeader == [present |-> FALSE, pre |-> "", jwt |-> <<>>]
Header(pre, token) == [present |-> TRUE, pre |-> pre, jwt |-> <<token>>]

\* header.replace('Bearer ', ''): removes the first occurrence of 'Bearer '. A
\* JWT holds no space, so an occurrence lies in the text before it.
ReplaceBearer(pre) ==
    CASE pre = "Bearer " -> ""
      [] pre = "Bearer Bearer " -> "Bearer "
      [] OTHER -> pre

\* authMiddleware at time t: the error caught (401) or "none" and req.user
AuthMiddleware(header, t) ==
    IF ~header.present
    THEN [err |-> "TypeError", id |-> 0]
    ELSE IF ReplaceBearer(header.pre) # "" \/ header.jwt = <<>>
    THEN [err |-> "JsonWebTokenError", id |-> 0]
    ELSE LET e == JwtVerify(header.jwt[1], t)
         IN  [err |-> e, id |-> IF e = "none" THEN header.jwt[1].id ELSE 0]

\* ------------------------------------------------------------ the users table
Ids == DOMAIN users

\* an INSERT that creates the row already onboarded
NewRowOnboarded(id, email, hash) ==
    [id |-> id, email |-> email, password |-> hash, name |-> NULL,
     username |-> NULL, onboarded |-> 1,
     resetToken |-> NoFingerprint, resetTokenExpiry |-> NoExpiry]

\* INSERT INTO users (email, password, onboarded) VALUES (?, ?, 0)
NewRow(id, email, hash) ==
    [id |-> id, email |-> email, password |-> hash, name |-> NULL,
     username |-> NULL, onboarded |-> 0,
     resetToken |-> NoFingerprint, resetTokenExpiry |-> NoExpiry]

\* SELECT * FROM users, without its WHERE clause
SelectEveryUser(email) == users

\* SELECT * FROM users WHERE email = ?
SelectByEmail(email) == SelectSeq(users, LAMBDA r : r.email = email)

\* SELECT * FROM users WHERE id = ?
SelectById(id) == SelectSeq(users, LAMBDA r : r.id = id)

\* SELECT * FROM users WHERE resetToken = ?, without the expiry condition
SelectByResetTokenAnyAge(hashed) ==
    SelectSeq(users, LAMBDA r : r.resetToken # NoFingerprint /\ r.resetToken = hashed)

\* SELECT * FROM users WHERE resetToken = ? AND resetTokenExpiry > NOW()
SelectByResetToken(hashed) ==
    SelectSeq(users, LAMBDA r : /\ r.resetToken # NoFingerprint
                                /\ r.resetToken = hashed
                                /\ r.resetTokenExpiry > now)

\* SELECT * FROM users WHERE username = ?, the requester's row included
SelectByUsernameAnyId(username, id) ==
    SelectSeq(users, LAMBDA r : r.username = username)

\* SELECT * FROM users WHERE username = ? AND id != ?
SelectByUsername(username, id) ==
    SelectSeq(users, LAMBDA r : r.username = username /\ r.id # id)

\* a users table created without UNIQUE KEY `email`
NoEmailKey(email) == FALSE

\* UNIQUE KEY `email`: would an INSERT of this email raise ER_DUP_ENTRY
EmailKeyViolated(email) == \E i \in Ids : users[i].email = email

\* a users table created without UNIQUE KEY `username`
NoUsernameKey(username, id) == FALSE

\* UNIQUE KEY `username`: would setting it on row id raise ER_DUP_ENTRY; an
\* UPDATE whose WHERE matches no row writes nothing and raises nothing
UsernameKeyViolated(username, id) ==
    /\ \E i \in Ids : users[i].id = id
    /\ \E i \in Ids : users[i].id # id /\ users[i].username = username

\* the row put in a response as the SELECT returned it
KeepPassword(r) == r

\* delete user.password: the row as it is put in a response
StripPassword(r) ==
    [id |-> r.id, email |-> r.email, name |-> r.name, username |-> r.username,
     onboarded |-> r.onboarded, resetToken |-> r.resetToken,
     resetTokenExpiry |-> r.resetTokenExpiry]

\* ------------------------------------------------------------ requests
\* a validation that lets every body through
NeverFalsy(v) == FALSE

\* if (!field): the body field is absent or the empty string
Falsy(v) == v = Missing

Idle ==
    [pc |-> "idle", email |-> Missing, password |-> Missing, uid |-> 0,
     name |-> Missing, username |-> Missing, token |-> <<>>, expiry |-> NoExpiry,
     scheme |-> "n/a", bearer |-> TRUE, old |-> Missing, jwt |-> <<>>,
     missing |-> FALSE]

\* The server takes another request.
Accept ==
    /\ nreq < MaxReq
    /\ nreq' = nreq + 1

\* The handlers in flight that are at position pc.
At(pc) == {l \in BagToSet(inflight) : l.pc = pc}

\* The text of the header before its token, as the request log shows it.
SchemeOf(header) == IF header.present THEN header.pre ELSE "(no header)"

\* The header is 'Bearer <token>' with a validly signed token unexpired at t.
IsBearerForm(header, t) ==
    /\ header.present
    /\ header.pre = "Bearer "
    /\ header.jwt # <<>>
    /\ JwtVerify(header.jwt[1], t) = "none"

\* The tokens a client can put in a header: the ones login returned, and
\* copies of them with an altered payload or an altered signature.
Altered(t) ==
    {[t EXCEPT !.id = i] : i \in (1..Cardinality(Emails)) \ {t.id}}
        \cup {[t EXCEPT !.exp = t.exp + 1]}
IssuedTokens == {sessions[i][1] : i \in {j \in DOMAIN sessions : sessions[j] # <<>>}}

\* A token that a login of an earlier run returned (at time 0) for an account
\* whose row has since been removed from the table; its id is never reused.
StaleToken == JwtSign(Cardinality(Emails) + 1, 0)

Headers ==
    {NoHeader}
        \cup {Header("Bearer ", StaleToken)}
        \cup {Header(pre, t) : pre \in {"Bearer ", "", "Basic "},
                               t \in IssuedTokens}
        \cup {Header("Bearer ", a) : a \in UNION {Altered(t) : t \in IssuedTokens}}

\* The reset tokens a client can present: the secrets generated so far, a
\* value never generated, and a fingerprint read from the table.
PresentableTokens ==
    {RandomBytes(k) : k \in 1..Len(issuedTo)}
        \cup {RandomBytes(0)}
        \cup {users[i].resetToken : i \in {j \in Ids : users[j].resetToken # NoFingerprint}}

\* res.status(status).json({ [key]: msg, user, token }) sent from `line`; the
\* other fields are the request log: what was caught, what the request carried
Resp(op, line, status, key, msg) ==
    [op |-> op, line |-> line, status |-> status, key |-> key, msg |-> msg,
     user |-> <<>>, token |-> <<>>, err |-> "none", found |-> FALSE,
     scheme |-> "n/a", bearer |-> TRUE, secret |-> <<>>, uid |-> 0, old |-> Missing,
     username |-> Missing, missing |-> FALSE, email |-> Missing,
     password |-> Missing]

\* a catch block that answers 401 with the text of what it caught
CaughtLeaky(op, line, msg) == Resp(op, line, 401, "message", "Error: connect ECONNREFUSED")

\* catch (error) { console.error(...); res.status(500).json({ message: msg }) }
Caught(op, line, msg) == Resp(op, line, 500, "message", msg)

\* the request log's note of whether a required body field was absent
Logged(r, missing) == [r EXCEPT !.missing = missing]

\* the request log's note of the credentials a login request carried
Credentials(r, email, password) == [r EXCEPT !.email = email, !.password = password]

NoResp == Resp("none", 0, 0, "message", "")
\* a step of the server sends a response or none; the page in the browser is not its to change
Reply(r) == lastResp' = r /\ UNCHANGED profile
Silent == lastResp' = NoResp /\ UNCHANGED profile
\* a handler awaits a store call with its locals; it resumes; it returns
Park(locals) == inflight' = inflight (+) SetToBag({locals})
Resume(l, locals) == inflight' = (inflight (-) SetToBag({l})) (+) SetToBag({locals})
Release(l) == inflight' = inflight (-) SetToBag({l})

\* authMiddleware's catch: res.status(401).json({ error: 'Authentication failed.' })
AuthFailed(op, mw, header, bearer) ==
    [Resp(op, 10, 401, "error", "Authentication failed.")
        EXCEPT !.err = mw.err, !.scheme = SchemeOf(header), !.bearer = bearer]

\* The server starts against the database and the clients that earlier runs
\* left behind: a fresh install, or two registered accounts that have both
\* logged in (at time 0), the first of which has asked for a password reset
\* and the second of which has onboarded.
FreshTable == <<>>
UsedTable ==
    << [NewRow(1, "a@x.com", BcryptHash("pw1", 1))
           EXCEPT !.resetToken = Sha256(RandomBytes(1)),
                  !.resetTokenExpiry = ResetExpiry(0)],
       [NewRow(2, "b@x.com", BcryptHash("pw1", 2))
           EXCEPT !.name = "Al", !.username = "bob", !.onboarded = 1] >>

\* line 111: no row for the email
LoginNoUser == Resp("login", 111, 401, "message", "Invalid email or password")

\* a wrong-password answer that names the cause
LoginBadPasswordLeaky ==
    [Resp("login", 119, 401, "message", "Incorrect password") EXCEPT !.found = TRUE]

\* line 119: bcrypt.compare said no
LoginBadPassword ==
    [Resp("login", 119, 401, "message", "Invalid email or password") EXCEPT !.found = TRUE]

\* a forgot-password answer that tells an unknown email apart
ForgotSentLeaky(found) ==
    IF found
    THEN [Resp("forgot-password", 220, 200, "message",
               "If a user with that email exists, a password reset link has been sent.")
            EXCEPT !.found = TRUE]
    ELSE Resp("forgot-password", 220, 404, "message", "User not found")

\* line 220: the one answer of forgot-password, whether a row was found or not
ForgotSent(found) ==
    [Resp("forgot-password", 220, 200, "message",
          "If a user with that email exists, a password reset link has been sent.")
       EXCEPT !.found = found]

\* the plaintext secret put in the resetToken column
StoredPlain(resetToken) == resetToken

\* lines 204 and 211: what forgot-password puts in the resetToken column
StoredResetToken(resetToken) == Sha256(resetToken)

ServerInit ==
    /\ users \in {FreshTable, UsedTable}
    /\ now = 0
    /\ inflight = EmptyBag
    /\ sessions = [i \in 1..Cardinality(Emails) |->
                      IF i \in DOMAIN users THEN <<JwtSign(i, 0)>> ELSE <<>>]
    /\ issuedTo = IF users = FreshTable THEN <<>> ELSE <<1>>
    /\ outbox = {}
    /\ okResets = [k \in 1..MaxSecrets |-> 0]
    /\ written = IF users = FreshTable THEN <<>>
                 ELSE <<[secret |-> RandomBytes(1), expiry |-> ResetExpiry(0)]>>
    /\ nsalt = Len(users)
    /\ nreq = 0
    /\ lastResp = NoResp

\* the server starts; the page is open with a session that carries the token
Init ==
    /\ ServerInit
    /\ profile = Mounted("eyJ")

\* ------------------------------------------------------------ POST /api/register
\* lines 55-68: validation and the first SELECT
Register(email, password, callOk) ==
    /\ Accept
    /\ IF Falsy(email) \/ Falsy(password)
       THEN /\ Reply(Logged(Resp("register", 60, 400, "message", "Email and password are required"), Missing \in {email, password}))
            /\ UNCHANGED inflight
       ELSE IF ~callOk
       THEN /\ Reply(Logged([Caught("register", 89, "An error occurred during registration")
                        EXCEPT !.err = "store"], Missing \in {email, password}))
            /\ UNCHANGED inflight
       ELSE IF Len(SelectByEmail(email)) > 0
       THEN /\ Reply(Logged(Resp("register", 67, 409, "message", "User with this email already exists"), Missing \in {email, password}))
            /\ UNCHANGED inflight
       ELSE /\ Park(Logged([Idle EXCEPT !.pc = "reg_insert", !.email = email, !.password = password], Missing \in {email, password}))
            /\ Silent
    /\ UNCHANGED <<users, now, sessions, issuedTo, outbox, written, okResets, nsalt>>

\* lines 70-77: bcrypt.hash and the INSERT
RegInsert(l, callOk) ==
    /\ LET hashedPassword == BcryptHash(l.password, nsalt + 1)
       IN  IF ~callOk \/ EmailKeyViolated(l.email)
           THEN /\ Reply(Logged([Caught("register", 89, "An error occurred during registration")
                            EXCEPT !.err = IF callOk THEN "ER_DUP_ENTRY" ELSE "store"], l.missing))
                /\ Release(l)
                /\ UNCHANGED <<users, nsalt>>
           ELSE /\ users' = Append(users, NewRow(Len(users) + 1, l.email, hashedPassword))
                /\ nsalt' = nsalt + 1
                /\ Resume(l, [l EXCEPT !.pc = "reg_select"])
                /\ Silent
    /\ UNCHANGED <<now, sessions, issuedTo, outbox, written, okResets, nreq>>

\* lines 79-85: the second SELECT and the 201
RegSelect(l, callOk) ==
    /\ IF ~callOk
       THEN Reply(Logged([Caught("register", 89, "An error occurred during registration")
                     EXCEPT !.err = "store"], l.missing))
       ELSE LET newUser == SelectByEmail(l.email)[1]
            IN  Reply(Logged([Resp("register", 85, 201, "message", "User registered successfully")
                         EXCEPT !.user = <<StripPassword(newUser)>>], l.missing))
    /\ Release(l)
    /\ UNCHANGED <<users, now, sessions, issuedTo, outbox, written, okResets, nsalt, nreq>>

\* ------------------------------------------------------------ POST /api/login
\* lines 99-135: one store call, so one step
Login(email, password, callOk) ==
    /\ Accept
    /\ LET found == SelectByEmail(email)
       IN  IF Falsy(email) \/ Falsy(password)
           THEN /\ Reply(Credentials(Logged(Resp("login", 103, 400, "message", "Email and password are required"), Missing \in {email, password}), email, password))
                /\ UNCHANGED sessions
           ELSE IF ~callOk
           THEN /\ Reply(Credentials(Logged([Caught("login", 133, "An error occurred during login")
                            EXCEPT !.err = "store"], Missing \in {email, password}), email, password))
                /\ UNCHANGED sessions
           ELSE IF Len(found) = 0
           THEN /\ Reply(Credentials(Logged(LoginNoUser, Missing \in {email, password}), email, password))
                /\ UNCHANGED sessions
           ELSE IF ~BcryptCompare(password, found[1].password)
           THEN /\ Reply(Credentials(Logged(LoginBadPassword, Missing \in {email, password}), email, password))
                /\ UNCHANGED sessions
           ELSE LET token == JwtSign(found[1].id, now)
                IN  /\ Reply(Credentials(Logged([Resp("login", 129, 200, "none", "")
                                EXCEPT !.user = <<StripPassword(found[1])>>,
                                       !.token = <<token>>, !.found = TRUE], Missing \in {email, password}), email, password))
                    /\ sessions' = [sessions EXCEPT ![found[1].id] = <<token>>]
    /\ UNCHANGED <<users, now, inflight, issuedTo, outbox, written, okResets, nsalt>>

\* UPDATE users SET <the columns of `set`>, without its WHERE clause
UpdateEveryRow(id, set) == [i \in Ids |-> set @@ users[i]]

\* UPDATE users SET <the columns of `set`> WHERE id = ?
UpdateById(id, set) ==
    [i \in Ids |-> IF users[i].id = id THEN set @@ users[i] ELSE users[i]]

\* ------------------------------------------------------------ PUT /api/profile/password
\* authMiddleware, then lines 148-168: validation, SELECT by id, bcrypt.compare
ChangePassword(header, oldPassword, newPassword, callOk) ==
    /\ Accept
    /\ LET mw == AuthMiddleware(header, now)
           bearer == IsBearerForm(header, now)
           found == SelectById(mw.id)
       IN  IF mw.err # "none"
           THEN /\ Reply(Logged(AuthFailed("change-password", mw, header, bearer), Missing \in {oldPassword, newPassword}))
                /\ UNCHANGED inflight
           ELSE IF Falsy(oldPassword) \/ Falsy(newPassword)
           THEN /\ Reply(Logged([Resp("change-password", 152, 400, "message", "Old and new passwords are required")
                            EXCEPT !.scheme = SchemeOf(header), !.bearer = bearer,
                                   !.uid = mw.id, !.old = oldPassword], Missing \in {oldPassword, newPassword}))
                /\ UNCHANGED inflight
           ELSE IF ~callOk
           THEN /\ Reply(Logged([Caught("change-password", 178, "An error occurred while changing the password")
                            EXCEPT !.err = "store", !.scheme = SchemeOf(header), !.bearer = bearer,
                                   !.uid = mw.id, !.old = oldPassword], Missing \in {oldPassword, newPassword}))
                /\ UNCHANGED inflight
           ELSE IF Len(found) = 0
           THEN /\ Reply(Logged([Resp("change-password", 159, 404, "message", "User not found")
                            EXCEPT !.scheme = SchemeOf(header), !.bearer = bearer,
                                   !.uid = mw.id, !.old = oldPassword], Missing \in {oldPassword, newPassword}))
                /\ UNCHANGED inflight
           ELSE IF ~BcryptCompare(oldPassword, found[1].password)
           THEN /\ Reply(Logged([Resp("change-password", 167, 401, "message", "Incorrect old password")
                            EXCEPT !.found = TRUE, !.scheme = SchemeOf(header), !.bearer = bearer,
                                   !.uid = mw.id, !.old = oldPassword], Missing \in {oldPassword, newPassword}))
                /\ UNCHANGED inflight
           ELSE /\ Park(Logged([Idle EXCEPT !.pc = "cp_update", !.uid = found[1].id,
                                        !.password = newPassword, !.old = oldPassword,
                                        !.jwt = header.jwt,
                                        !.scheme = SchemeOf(header), !.bearer = bearer], Missing \in {oldPassword, newPassword}))
                /\ Silent
    /\ UNCHANGED <<users, now, sessions, issuedTo, outbox, written, okResets, nsalt>>

\* lines 170-174: bcrypt.hash and the UPDATE
CpUpdate(l, callOk) ==
    /\ LET hashedNewPassword == BcryptHash(l.password, nsalt + 1)
       IN  IF ~callOk
           THEN /\ Reply(Logged([Caught("change-password", 178, "An error occurred while changing the password")
                            EXCEPT !.err = "store", !.scheme = l.scheme, !.bearer = l.bearer,
                                   !.uid = l.uid, !.old = l.old], l.missing))
                /\ UNCHANGED <<users, nsalt>>
           ELSE /\ users' = UpdateById(l.uid, [password |-> hashedNewPassword])
                /\ nsalt' = nsalt + 1
                /\ Reply(Logged([Resp("change-password", 174, 200, "message", "Password updated successfully")
                            EXCEPT !.found = TRUE, !.scheme = l.scheme, !.bearer = l.bearer,
                                   !.uid = l.uid, !.old = l.old], l.missing))
    /\ Release(l)
    /\ UNCHANGED <<now, sessions, issuedTo, outbox, written, okResets, nreq>>

\* ------------------------------------------------------------ POST /api/forgot-password
\* lines 188-207: validation, SELECT by email, the secret, its digest, the expiry
ForgotPassword(email, callOk) ==
    /\ Accept
    /\ LET found == SelectByEmail(email)
       IN  IF Falsy(email)
           THEN /\ Reply(Logged(Resp("forgot-password", 191, 400, "message", "Email is required"), Missing \in {email}))
                /\ UNCHANGED <<inflight, issuedTo>>
           ELSE IF ~callOk
           THEN /\ Reply(Logged([Caught("forgot-password", 224, "An error occurred")
                            EXCEPT !.err = "store"], Missing \in {email}))
                /\ UNCHANGED <<inflight, issuedTo>>
           ELSE IF Len(found) > 0
           THEN /\ Len(issuedTo) < MaxSecrets
                /\ LET resetToken == RandomBytes(Len(issuedTo) + 1)
                   IN  Park(Logged([Idle EXCEPT !.pc = "fp_update", !.uid = found[1].id,
                                            !.token = resetToken,
                                            !.expiry = ResetExpiry(now)], Missing \in {email}))
                /\ issuedTo' = Append(issuedTo, found[1].id)
                /\ Silent
           ELSE /\ Reply(Logged(ForgotSent(FALSE), Missing \in {email}))
                /\ UNCHANGED <<inflight, issuedTo>>
    /\ UNCHANGED <<users, now, sessions, outbox, written, okResets, nsalt>>

\* What lines 214-216 hand to the notifier: nothing, the call is commented out.
Dispatch(uid, resetToken) == {}

\* an UPDATE that renews the expiry and keeps the fingerprint already stored
ForgotSetExpiryOnly(hashedResetToken, expiry) == [resetTokenExpiry |-> expiry]

\* an UPDATE that also sends the account back to onboarding
ForgotSetAlsoOnboarded(hashedResetToken, expiry) ==
    [resetToken |-> hashedResetToken, resetTokenExpiry |-> expiry, onboarded |-> 0]

\* line 210: SET resetToken = ?, resetTokenExpiry = ?
ForgotSetClause(hashedResetToken, expiry) ==
    [resetToken |-> hashedResetToken, resetTokenExpiry |-> expiry]

\* lines 209-220: the UPDATE of both reset columns, the (absent) mail, the 200
FpUpdate(l, callOk) ==
    /\ LET hashedResetToken == StoredResetToken(l.token)
       IN  IF ~callOk
           THEN /\ Reply(Logged([Caught("forgot-password", 224, "An error occurred")
                            EXCEPT !.err = "store", !.found = TRUE], l.missing))
                /\ UNCHANGED <<users, outbox, written>>
           ELSE /\ users' = UpdateById(l.uid, ForgotSetClause(hashedResetToken, l.expiry))
                /\ outbox' = outbox \cup Dispatch(l.uid, l.token)
                /\ written' = Append(written, [secret |-> l.token, expiry |-> l.expiry])
                /\ Reply(Logged(ForgotSent(TRUE), l.missing))
    /\ Release(l)
    /\ UNCHANGED <<now, sessions, issuedTo, okResets, nsalt, nreq>>

\* ------------------------------------------------------------ POST /api/reset-password
\* lines 234-254: validation, the digest, the SELECT of an unexpired match
ResetPassword(token, newPassword, callOk) ==
    /\ Accept
    /\ LET hashedToken == Sha256(token)
           found == SelectByResetToken(hashedToken)
       IN  IF token = <<>> \/ Falsy(newPassword)
           THEN /\ Reply(Logged([Resp("reset-password", 237, 400, "message", "Token and new password are required")
                            EXCEPT !.secret = <<token>>], (token = <<>> \/ newPassword = Missing)))
                /\ UNCHANGED inflight
           ELSE IF ~callOk
           THEN /\ Reply(Logged([Caught("reset-password", 267, "An error occurred while resetting the password.")
                            EXCEPT !.err = "store", !.secret = <<token>>], (token = <<>> \/ newPassword = Missing)))
                /\ UNCHANGED inflight
           ELSE IF Len(found) = 0
           THEN /\ Reply(Logged([Resp("reset-password", 251, 400, "message", "Invalid or expired password reset token.")
                            EXCEPT !.secret = <<token>>], (token = <<>> \/ newPassword = Missing)))
                /\ UNCHANGED inflight
           ELSE /\ Park(Logged([Idle EXCEPT !.pc = "rp_update", !.uid = found[1].id,
                                        !.token = token, !.password = newPassword], (token = <<>> \/ newPassword = Missing)))
                /\ Silent
    /\ UNCHANGED <<users, now, sessions, issuedTo, outbox, written, okResets, nsalt>>

\* an UPDATE that sets the password and clears resetToken only
ResetSetTokenOnly(hashedNewPassword) ==
    [password |-> hashedNewPassword, resetToken |-> NoFingerprint]

\* an UPDATE that sets the password only, the reset columns being cleared
\* by no statement
ResetSetPasswordOnly(hashedNewPassword) == [password |-> hashedNewPassword]

\* line 259: SET password = ?, resetToken = NULL, resetTokenExpiry = NULL
ResetSetClause(hashedNewPassword) ==
    [password |-> hashedNewPassword, resetToken |-> NoFingerprint,
     resetTokenExpiry |-> NoExpiry]

\* lines 255-263: bcrypt.hash, the UPDATE of the password and both reset columns
RpUpdate(l, callOk) ==
    /\ LET hashedNewPassword == BcryptHash(l.password, nsalt + 1)
       IN  IF ~callOk
           THEN /\ Reply(Logged([Caught("reset-password", 267, "An error occurred while resetting the password.")
                            EXCEPT !.err = "store", !.found = TRUE, !.secret = <<l.token>>], l.missing))
                /\ UNCHANGED <<users, okResets, nsalt>>
           ELSE /\ users' = UpdateById(l.uid, ResetSetClause(hashedNewPassword))
                /\ nsalt' = nsalt + 1
                /\ okResets' = [okResets EXCEPT ![l.token[2]] = @ + 1]
                /\ Reply(Logged([Resp("reset-password", 263, 200, "message", "Password has been reset successfully.")
                            EXCEPT !.found = TRUE, !.secret = <<l.token>>], l.missing))
    /\ Release(l)
    /\ UNCHANGED <<now, sessions, issuedTo, outbox, written, nreq>>

\* ------------------------------------------------------------ PUT /api/onboarding
\* authMiddleware, then lines 277-294: validation and the pre-check SELECT
Onboarding(header, name, username, callOk) ==
    /\ Accept
    /\ LET mw == AuthMiddleware(header, now)
           bearer == IsBearerForm(header, now)
           userId == mw.id
       IN  IF mw.err # "none"
           THEN /\ Reply(Logged(AuthFailed("onboarding", mw, header, bearer), Missing \in {name, username}))
                /\ UNCHANGED inflight
           ELSE IF Falsy(name) \/ Falsy(username)
           THEN /\ Reply(Logged([Resp("onboarding", 282, 400, "message", "Name and username are required")
                            EXCEPT !.scheme = SchemeOf(header), !.bearer = bearer,
                                   !.uid = userId, !.username = username], Missing \in {name, username}))
                /\ UNCHANGED inflight
           ELSE IF ~callOk
           THEN /\ Reply(Logged([Caught("onboarding", 309, "An error occurred during the onboarding process.")
                            EXCEPT !.err = "store", !.scheme = SchemeOf(header), !.bearer = bearer,
                                   !.uid = userId, !.username = username], Missing \in {name, username}))
                /\ UNCHANGED inflight
           ELSE IF Len(SelectByUsername(username, userId)) > 0
           THEN /\ Reply(Logged([Resp("onboarding", 293, 409, "message", "Username is already taken. Please choose another.")
                            EXCEPT !.scheme = SchemeOf(header), !.bearer = bearer,
                                   !.uid = userId, !.username = username], Missing \in {name, username}))
                /\ UNCHANGED inflight
           ELSE /\ Park(Logged([Idle EXCEPT !.pc = "ob_update", !.uid = userId, !.name = name,
                                        !.jwt = header.jwt,
                                        !.username = username, !.scheme = SchemeOf(header), !.bearer = bearer], Missing \in {name, username}))
                /\ Silent
    /\ UNCHANGED <<users, now, sessions, issuedTo, outbox, written, okResets, nsalt>>

\* line 298: SET name = ?, username = ?, onboarded = 1
OnboardingSetClause(name, username) ==
    [name |-> name, username |-> username, onboarded |-> 1]

\* lines 296-310: the UPDATE, and the catch that maps ER_DUP_ENTRY to 409
ObUpdate(l, callOk) ==
    /\ IF ~callOk
           THEN /\ Reply(Logged([Caught("onboarding", 309, "An error occurred during the onboarding process.")
                            EXCEPT !.err = "store", !.scheme = l.scheme, !.bearer = l.bearer,
                                   !.uid = l.uid, !.username = l.username], l.missing))
                /\ UNCHANGED users
           ELSE IF UsernameKeyViolated(l.username, l.uid)
           THEN /\ Reply(Logged([Resp("onboarding", 307, 409, "message", "Username is already taken. Please choose another.")
                            EXCEPT !.err = "ER_DUP_ENTRY", !.scheme = l.scheme, !.bearer = l.bearer,
                                   !.uid = l.uid, !.username = l.username], l.missing))
                /\ UNCHANGED users
           ELSE /\ users' = UpdateById(l.uid, OnboardingSetClause(l.name, l.username))
                /\ Reply(Logged([Resp("onboarding", 302, 200, "message", "Onboarding completed successfully!")
                            EXCEPT !.scheme = l.scheme, !.bearer = l.bearer,
                                   !.uid = l.uid, !.username = l.username], l.missing))
    /\ Release(l)
    /\ UNCHANGED <<now, sessions, issuedTo, outbox, written, okResets, nsalt, nreq>>

\* ------------------------------------------------------------ POST /api/auth/google
\* The request callbacks.jwt sends after a Google sign-in. server.js registers
\* no such route (its routes are the six above), so express answers 404
\* itself: no handler runs, no row is read or written, no token is signed.
\* The callback then finds !res.ok and marks the session 'BackendError'.
AuthGoogle(email, name) ==
    /\ Accept
    /\ Reply([Resp("auth-google", 0, 404, "none", "") EXCEPT !.username = name])
    /\ UNCHANGED <<users, now, inflight, sessions, issuedTo, outbox, written, okResets, nsalt>>

\* ------------------------------------------------------------ the clock
Tick ==
    /\ now < MaxTime
    /\ now' = now + 1
    /\ Silent
    /\ UNCHANGED <<users, inflight, sessions, issuedTo, outbox, written, okResets, nsalt, nreq>>

Next ==
    \/ \E e \in Emails \cup {Missing}, p \in Passwords \cup {Missing}, ok \in BOOLEAN :
          Register(e, p, ok)
    \/ \E l \in At("reg_insert"), ok \in BOOLEAN : RegInsert(l, ok)
    \/ \E l \in At("reg_select"), ok \in BOOLEAN : RegSelect(l, ok)
    \/ \E e \in Emails \cup {Missing}, p \in Passwords \cup {Missing}, ok \in BOOLEAN :
          Login(e, p, ok)
    \/ \E h \in Headers, o \in Passwords \cup {Missing},
          n \in Passwords \cup {Missing}, ok \in BOOLEAN :
          ChangePassword(h, o, n, ok)
    \/ \E l \in At("cp_update"), ok \in BOOLEAN : CpUpdate(l, ok)
    \/ \E e \in Emails \cup {Missing}, ok \in BOOLEAN : ForgotPassword(e, ok)
    \/ \E l \in At("fp_update"), ok \in BOOLEAN : FpUpdate(l, ok)
    \/ \E t \in PresentableTokens \cup {<<>>}, n \in Passwords \cup {Missing},
          ok \in BOOLEAN : ResetPassword(t, n, ok)
    \/ \E l \in At("rp_update"), ok \in BOOLEAN : RpUpdate(l, ok)
    \/ \E h \in Headers, n \in Names \cup {Missing},
          u \in Usernames \cup {Missing}, ok \in BOOLEAN : Onboarding(h, n, u, ok)
    \/ \E l \in At("ob_update"), ok \in BOOLEAN : ObUpdate(l, ok)
    \/ \E e \in Emails, n \in Names : AuthGoogle(e, n)
    \/ Tick

Spec == Init /\ [][Next]_vars

\* ------------------------------------------------------------ the Profile page
\* data.message when the body has no message key (authMiddleware's body has only 'error')
Undefined == "undefined"

\* What the fetch of PUT /api/profile/password comes to: the route's 200, one
\* of its other answers or the middleware's 401, or a rejection (the network
\* fails, or response.json() cannot parse the body).
Answers ==
    {[settled |-> "ok", message |-> "Password updated successfully"]}
    \cup {[settled |-> "notOk", message |-> m] :
             m \in {"Old and new passwords are required", "User not found",
                    "Incorrect old password",
                    "An error occurred while changing the password", Undefined}}
    \cup {[settled |-> "threw", message |-> Undefined]}

\* onChange of the two inputs
SetOldPassword(v) ==
    /\ profile' = [profile EXCEPT !.oldPassword = v]
    /\ UNCHANGED server

SetNewPassword(v) ==
    /\ profile' = [profile EXCEPT !.newPassword = v]
    /\ UNCHANGED server

\* The form's onSubmit, up to the fetch: the button is disabled while loading
\* and both inputs are required. Without a token the handler returns before
\* the try statement; otherwise it awaits the fetch.
HandlePasswordChange ==
    /\ profile.pc = "idle"
    /\ ~profile.loading
    /\ profile.oldPassword # "" /\ profile.newPassword # ""
    /\ LET token == profile.session.accessToken IN
          profile' = [profile EXCEPT
                        !.loading = TRUE,
                        !.message = NoMessage,
                        !.pc = IF Falsy(token) THEN "idle" ELSE "fetch"]
    /\ UNCHANGED server

\* The rest of the handler once the fetch has settled: try, catch, finally.
FetchSettled(answer) ==
    /\ profile.pc = "fetch"
    /\ profile' =
          [profile EXCEPT
             !.message = CASE answer.settled = "ok" ->
                                [text |-> answer.message, type |-> "success"]
                          [] answer.settled = "notOk" ->
                                [text |-> answer.message, type |-> "error"]
                          [] OTHER ->
                                [text |-> "An error occurred. Please try again.",
                                 type |-> "error"],
             !.oldPassword = IF answer.settled = "ok" THEN "" ELSE @,
             !.newPassword = IF answer.settled = "ok" THEN "" ELSE @,
             !.loading = FALSE,
             !.pc = "idle"]
    /\ UNCHANGED server

PageInit ==
    /\ ServerInit
    /\ profile \in {Mounted(t) : t \in AccessTokens}

PageNext ==
    \/ \E v \in Passwords \cup {""} : SetOldPassword(v)
    \/ \E v \in Passwords \cup {""} : SetNewPassword(v)
    \/ HandlePasswordChange
    \/ \E a \in Answers : FetchSettled(a)

\* a fetch settles (the browser resolves or rejects the promise) and the
\* event loop then runs the handler's continuation
PageSpec == PageInit /\ [][PageNext]_vars /\ WF_vars(\E a \in Answers : FetchSettled(a))

\* ------------------------------------------------------------ properties
Protected == {"change-password", "onboarding"}

\* what the client receives of a response: status and JSON body
Body(r) == [status |-> r.status, key |-> r.key, msg |-> r.msg, user |-> r.user,
            token |-> r.token]

\* C1: among the reset-password requests that present one issued secret, at
\* most one is answered 200, also when they run concurrently.
C1_ResetSingleUse == \A k \in DOMAIN okResets : okResets[k] <= 1

\* C2: a register request whose email already belongs to an account (the
\* INSERT hits the unique key) is answered 409, not 500 or 201.
C2_DuplicateRegisterIs409 ==
    (lastResp.op = "register" /\ lastResp.err = "ER_DUP_ENTRY") => lastResp.status = 409

\* C3: no two accounts hold the same non-null username, and an onboarding
\* request whose write loses the race on the unique key is answered 409
\* 'Username is already taken', not 500.
C3_UsernameUnique ==
    /\ \A i, j \in Ids :
          (i # j /\ users[i].username # NULL) => users[i].username # users[j].username
    /\ (lastResp.op = "onboarding" /\ lastResp.err = "ER_DUP_ENTRY") =>
          /\ lastResp.status = 409
          /\ lastResp.msg = "Username is already taken. Please choose another."

\* two accounts raced for one username: one holds it, the other's write was
\* refused by the key and answered 409
C3_Witness ==
    /\ lastResp.op = "onboarding"
    /\ lastResp.line = 307
    /\ lastResp.status = 409
    /\ \E i \in Ids : users[i].username # NULL

\* C4: no two accounts have the same email, and no step changes the email or
\* the id of an existing account (or removes the account).
C4_EmailUniqueImmutable ==
    /\ [](\A i, j \in Ids : i # j => users[i].email # users[j].email)
    /\ [][\A i \in DOMAIN users :
             /\ i \in DOMAIN users'
             /\ users'[i].email = users[i].email
             /\ users'[i].id = users[i].id]_vars

\* two register requests have each created an account
C4_Witness ==
    /\ lastResp.op = "register"
    /\ lastResp.status = 201
    /\ Len(users) = 2
    /\ nreq = 2

\* C5: a protected request whose header is absent or is not 'Bearer <valid
\* unexpired token>' is answered 401 by the middleware, and no handler runs
\* for it.
C5_NonBearerIs401 ==
    /\ (lastResp.op \in Protected /\ ~lastResp.bearer) =>
          (lastResp.status = 401 /\ lastResp.line = 10)
    /\ \A l \in BagToSet(inflight) : l.bearer

\* C6: the token a login returned for an account passes the middleware and
\* resolves to that account's id at every time before issuance + 1 hour, is
\* rejected at every time after it, a copy with an altered payload is
\* rejected at all times, and a rejection is answered 401.
C6_SessionTokenWindow ==
    /\ \A i \in DOMAIN sessions :
          sessions[i] # <<>> =>
             LET t == sessions[i][1]
                 r == AuthMiddleware(Header("Bearer ", t), now)
             IN  /\ now < t.iat + SessionTTL => (r.err = "none" /\ r.id = users[i].id)
                 /\ now > t.iat + SessionTTL => r.err # "none"
                 /\ \A a \in Altered(t) :
                       AuthMiddleware(Header("Bearer ", a), now).err # "none"
    /\ (lastResp.op \in Protected /\ lastResp.err \in {"TypeError", "JsonWebTokenError", "TokenExpiredError"})
          => lastResp.status = 401

\* a protected request carried a session token more than an hour old and was
\* rejected as expired
C6_Witness ==
    /\ lastResp.op \in Protected
    /\ lastResp.err = "TokenExpiredError"
    /\ \E i \in DOMAIN sessions :
          sessions[i] # <<>> /\ now > sessions[i][1].iat + SessionTTL

\* C7: login answers an unknown email and a wrong password with the same
\* status and the same body.
C7_LoginErrorsIdentical ==
    (lastResp.op = "login" /\ lastResp.line \in {111, 119}) =>
        Body(lastResp) = [status |-> 401, key |-> "message",
                          msg |-> "Invalid email or password",
                          user |-> <<>>, token |-> <<>>]

\* login was refused for an existing account
C7_Witness == lastResp.op = "login" /\ lastResp.line = 119 /\ lastResp.found

\* C8: forgot-password with a non-empty email, when no store call fails,
\* answers 200 with the same generic message whether or not a row was found.
C8_ForgotAnswerIdentical ==
    (lastResp.op = "forgot-password" /\ lastResp.status # 400 /\ lastResp.err # "store") =>
        Body(lastResp) = [status |-> 200, key |-> "message",
                          msg |-> "If a user with that email exists, a password reset link has been sent.",
                          user |-> <<>>, token |-> <<>>]

\* forgot-password was answered for an email that has no account
C8_Witness ==
    lastResp.op = "forgot-password" /\ lastResp.line = 220 /\ ~lastResp.found

\* C9: when forgot-password has stored a fingerprint for an account, the
\* secret it is the fingerprint of was handed to the notifier for that account.
C9_SecretDispatched ==
    (lastResp.op = "forgot-password" /\ lastResp.found /\ lastResp.status = 200) =>
        \A i \in Ids :
           users[i].resetToken # NoFingerprint =>
              \E m \in outbox : m.to = users[i].email /\ Sha256(m.secret) = users[i].resetToken

\* C10: the resetToken column of every account is null or the fingerprint of
\* a secret generated for that account, and never a secret.
C10_OnlyFingerprintStored ==
    \A i \in Ids :
       \/ users[i].resetToken = NoFingerprint
       \/ /\ \E k \in 1..Len(issuedTo) :
                /\ issuedTo[k] = users[i].id
                /\ users[i].resetToken = <<"sha256">> \o RandomBytes(k)
          /\ \A k \in 0..MaxSecrets : users[i].resetToken # RandomBytes(k)

\* forgot-password has stored the fingerprint of a secret it generated in this run
C10_Witness ==
    /\ lastResp.op = "forgot-password"
    /\ lastResp.found
    /\ lastResp.status = 200
    /\ \E i \in Ids : Len(users[i].resetToken) = 3 /\ users[i].resetToken[3] > 1

\* the rows that hold the fingerprint of a presented secret, at any age
Holding(secret) ==
    {i \in Ids : secret # <<>> /\ users[i].resetToken = Sha256(secret[1])}

\* C11: a reset-password request whose secret's fingerprint is on a row with
\* an expiry (issue time + 1 hour) not later than the time of the lookup is
\* answered 400 'Invalid or expired password reset token.' (unless a field is
\* missing or the store fails), never gets past the lookup, and the step
\* that answers it changes no row.
C11_ExpiredResetFails ==
    /\ []((/\ lastResp.op = "reset-password"
           /\ lastResp.line # 237
           /\ lastResp.err # "store"
           /\ \E i \in Holding(lastResp.secret) : users[i].resetTokenExpiry <= now)
          => /\ lastResp.status = 400
             /\ lastResp.msg = "Invalid or expired password reset token.")
    /\ [][\A l \in At("rp_update")' :
             CopiesIn(l, inflight') > CopiesIn(l, inflight) =>
                \E i \in Ids : /\ users[i].id = l.uid
                               /\ users[i].resetToken = Sha256(l.token)
                               /\ users[i].resetTokenExpiry > now]_vars
    /\ [][(lastResp'.op = "reset-password" /\ lastResp'.line = 251) => users' = users]_vars

\* the seeded secret was presented at its expiry time or later, while its
\* fingerprint was still stored, and was refused
C11_Witness ==
    /\ lastResp.op = "reset-password"
    /\ lastResp.line = 251
    /\ lastResp.secret = <<RandomBytes(1)>>
    /\ \E i \in Holding(lastResp.secret) :
          users[i].resetTokenExpiry <= now /\ users[i].password = BcryptHash("pw1", 1)

\* C12: on every account, resetToken and resetTokenExpiry are both null or
\* both non-null, in every reachable state and under every interleaving of
\* forgot-password and reset-password.
C12_ResetFieldsPaired ==
    \A i \in Ids :
       (users[i].resetToken = NoFingerprint) <=> (users[i].resetTokenExpiry = NoExpiry)

\* a reset-password has cleared the pair of an account and a forgot-password
\* that ran concurrently with it has then set both again
C12_Witness ==
    /\ lastResp.op = "forgot-password"
    /\ lastResp.status = 200
    /\ lastResp.found
    /\ okResets[1] = 1
    /\ \E i \in Ids : /\ users[i].resetToken = Sha256(RandomBytes(2))
                      /\ users[i].resetTokenExpiry # NoExpiry
                      /\ users[i].password # BcryptHash("pw1", i)

\* C13: the step of a reset-password answered 200 is one write that replaces
\* the password hash of one account and clears both its reset fields; after
\* it no row holds the redeemed fingerprint, so no state, and no request
\* running concurrently, sees the new hash next to the redeemed fingerprint.
C13_ResetAtomic ==
    /\ []((lastResp.op = "reset-password" /\ lastResp.status = 200)
            => Holding(lastResp.secret) = {})
    /\ [][(lastResp'.op = "reset-password" /\ lastResp'.status = 200) =>
             \E i \in Ids :
                /\ users'[i].password # users[i].password
                /\ users'[i].resetToken = NoFingerprint
                /\ users'[i].resetTokenExpiry = NoExpiry
                /\ \A j \in Ids \ {i} : users'[j] = users[j]]_vars

\* a reset-password was answered 200 while another request was in flight
C13_Witness ==
    /\ lastResp.op = "reset-password"
    /\ lastResp.status = 200
    /\ inflight # EmptyBag
    /\ \E i \in Ids : users[i].password[2] > 2 /\ users[i].resetToken = NoFingerprint

\* the hash was made by bcrypt from this plaintext
IsHashOf(hash, plain) == hash[1] = "bcrypt" /\ hash[3] = plain

\* C14: a change-password request that passed the middleware with both
\* fields present, when no store call fails: if no row has the token's id it
\* is answered 404 and nothing is written; if oldPassword does not verify
\* against the hash the handler read it is answered 401 'Incorrect old
\* password' and nothing is written; only a request whose oldPassword
\* verified goes on to the UPDATE, which replaces that row's hash by a hash
\* of newPassword, changes nothing else, and is answered 200.
C14_ChangePasswordOutcomes ==
    /\ [][(/\ lastResp'.op = "change-password"
           /\ nreq' = nreq + 1
           /\ lastResp'.line \notin {10, 152}
           /\ lastResp'.err # "store")
          => /\ users' = users
             /\ IF \A i \in Ids : users[i].id # lastResp'.uid
                THEN lastResp'.status = 404
                ELSE /\ lastResp'.status = 401
                     /\ lastResp'.msg = "Incorrect old password"
                     /\ \E i \in Ids : /\ users[i].id = lastResp'.uid
                                       /\ ~IsHashOf(users[i].password, lastResp'.old)]_vars
    /\ [][\A l \in At("cp_update")' :
             CopiesIn(l, inflight') > CopiesIn(l, inflight) =>
                /\ users' = users
                /\ \E i \in Ids : /\ users[i].id = l.uid
                                  /\ IsHashOf(users[i].password, l.old)]_vars
    /\ [][\A l \in At("cp_update") :
             CopiesIn(l, inflight') < CopiesIn(l, inflight) =>
                /\ lastResp'.op = "change-password"
                /\ IF lastResp'.err = "store"
                   THEN users' = users
                   ELSE /\ lastResp'.status = 200
                        /\ \A i \in Ids :
                              IF users[i].id = l.uid
                              THEN /\ IsHashOf(users'[i].password, l.password)
                                   /\ users'[i].password # users[i].password
                                   /\ users'[i] = [users[i] EXCEPT !.password = users'[i].password]
                              ELSE users'[i] = users[i]]_vars

\* a change-password has replaced an account's hash (no reset-password has
\* succeeded and no account was created), and a later one, whose token names
\* an account that has no row, was answered 404
C14_Witness ==
    /\ lastResp.op = "change-password"
    /\ lastResp.line = 159
    /\ lastResp.status = 404
    /\ lastResp.uid \notin {users[i].id : i \in Ids}
    /\ users # FreshTable
    /\ \A k \in DOMAIN okResets : okResets[k] = 0
    /\ \E i \in Ids : users[i].password[2] > Len(users) /\ IsHashOf(users[i].password, "pw2")

\* C15: the account object in a response of register or login carries no
\* stored reset fingerprint and no stored reset expiry, so the response does
\* not depend on the two reset columns.
C15_ResetFieldsNotInResponses ==
    \A k \in DOMAIN lastResp.user :
       /\ lastResp.user[k].resetToken = NoFingerprint
       /\ lastResp.user[k].resetTokenExpiry = NoExpiry

\* C16: no response contains a password hash: the account object of a
\* register 201 or a login 200 has no password field (and no stored hash in
\* its other digest-valued field), and every other response has no account
\* object and no token, only its message.
C16_NoHashInResponses ==
    /\ \A k \in DOMAIN lastResp.user :
          /\ "password" \notin DOMAIN lastResp.user[k]
          /\ \A i \in Ids : lastResp.user[k].resetToken # users[i].password
    /\ (lastResp.user # <<>> \/ lastResp.token # <<>>) =>
          \/ lastResp.op = "register" /\ lastResp.status = 201
          \/ lastResp.op = "login" /\ lastResp.status = 200

\* register has answered 201 with the account it created, whose row holds
\* the hash of the submitted password
C16_Witness ==
    /\ lastResp.op = "register"
    /\ lastResp.status = 201
    /\ lastResp.user # <<>>
    /\ \E i \in Ids : /\ users[i].id = lastResp.user[1].id
                      /\ users[i].password[1] = "bcrypt"

\* the name, username and onboarded fields of a row
Profile(r) == <<r.name, r.username, r.onboarded>>

\* C17: a step changes the name, username or onboarded field of an account
\* only if it is the UPDATE of an onboarding request whose header carried a
\* token signed for that account's id, unexpired when the middleware checked
\* it; no other request, and no token of another account, changes them.
C17_ProfileOwnerOnly ==
    /\ [][\A i \in Ids :
             Profile(users'[i]) # Profile(users[i]) =>
                /\ lastResp'.op = "onboarding"
                /\ lastResp'.status = 200
                /\ lastResp'.uid = users[i].id
                /\ \E l \in At("ob_update") :
                      /\ CopiesIn(l, inflight') < CopiesIn(l, inflight)
                      /\ l.uid = users[i].id
                      /\ l.jwt # <<>>
                      /\ l.jwt[1] = JwtSign(users[i].id, l.jwt[1].iat)]_vars
    /\ [][\A l \in At("ob_update")' :
             CopiesIn(l, inflight') > CopiesIn(l, inflight) =>
                /\ l.jwt # <<>>
                /\ l.jwt[1] = JwtSign(l.uid, l.jwt[1].iat)
                /\ now < l.jwt[1].exp]_vars

\* two accounts have each changed their own username with their own token:
\* the second gave up 'bob' for 'alice', then the first took 'bob'
C17_Witness ==
    /\ lastResp.op = "onboarding"
    /\ lastResp.status = 200
    /\ lastResp.uid = 1
    /\ Len(users) = 2
    /\ users[1].onboarded = 1
    /\ users[1].username = "bob"
    /\ users[2].username = "alice"

\* C18: a row is created with onboarded = 0, and no step takes onboarded
\* from 1 back to 0, whatever requests follow, repeated onboarding included.
C18_OnboardedMonotonic ==
    /\ [][\A i \in DOMAIN users' \ DOMAIN users : users'[i].onboarded = 0]_vars
    /\ [][\A i \in DOMAIN users :
             users[i].onboarded = 1 => (i \in DOMAIN users' /\ users'[i].onboarded = 1)]_vars
    /\ [](\A i \in Ids : users[i].onboarded \in {0, 1})

\* the first account has onboarded, and the second, onboarded long ago, has
\* then sent onboarding again and is still onboarded
C18_Witness ==
    /\ lastResp.op = "onboarding"
    /\ lastResp.status = 200
    /\ lastResp.uid = 2
    /\ nreq = 2
    /\ Len(users) = 2
    /\ users[1].onboarded = 1
    /\ users[2].onboarded = 1

\* C19: onboarding answers 409 only when an account other than the
\* requester holds the requested username; a request whose UPDATE finds the
\* requester already holding that username is answered 200 (unless the store
\* fails) and leaves the row with the same username and onboarded = 1.
C19_OnboardingIdempotent ==
    /\ []((lastResp.op = "onboarding" /\ lastResp.status = 409) =>
            \E i \in Ids : /\ users[i].id # lastResp.uid
                            /\ users[i].username = lastResp.username)
    /\ [][\A l \in At("ob_update"), i \in Ids :
             (/\ CopiesIn(l, inflight') < CopiesIn(l, inflight)
              /\ users[i].id = l.uid
              /\ users[i].username = l.username
              /\ lastResp'.err # "store")
             => /\ lastResp'.op = "onboarding"
                /\ lastResp'.status = 200
                /\ users'[i].username = users[i].username
                /\ users'[i].onboarded = 1
                /\ \A j \in Ids \ {i} : users'[j] = users[j]]_vars

\* the one request of the run: the onboarded account sent onboarding again
\* with the username it holds, and was answered 200
C19_Witness ==
    /\ lastResp.op = "onboarding"
    /\ lastResp.status = 200
    /\ nreq = 1
    /\ lastResp.uid = 2
    /\ lastResp.username = "bob"
    /\ users[2] = UsedTable[2]

\* C20: a request with a missing required field is answered 400 (a protected
\* one that the middleware rejects is answered 401 before its body is looked
\* at) whether or not the store is reachable, in a step that reads and
\* writes no row and leaves no handler waiting on a store call.
C20_ValidationFirst ==
    /\ [](lastResp.missing =>
            \/ /\ lastResp.status = 400
               /\ lastResp.err = "none"
               /\ lastResp.user = <<>>
            \/ /\ lastResp.op \in Protected
               /\ lastResp.status = 401
               /\ lastResp.line = 10)
    /\ [](\A l \in BagToSet(inflight) : ~l.missing)
    /\ [][lastResp'.missing =>
             (users' = users /\ inflight' = inflight /\ nsalt' = nsalt)]_vars

\* an onboarding request that passed the middleware without a username was
\* answered 400
C20_Witness ==
    /\ lastResp.op = "onboarding"
    /\ lastResp.missing
    /\ lastResp.username = Missing
    /\ lastResp.uid > 0
    /\ lastResp.status = 400

\* the fixed message of each endpoint's catch block
GenericMessage ==
    [x \in {"register", "login", "change-password", "forgot-password",
             "reset-password", "onboarding"} |->
        CASE x = "register" -> "An error occurred during registration"
          [] x = "login" -> "An error occurred during login"
          [] x = "change-password" -> "An error occurred while changing the password"
          [] x = "forgot-password" -> "An error occurred"
          [] x = "reset-password" -> "An error occurred while resetting the password."
          [] x = "onboarding" -> "An error occurred during the onboarding process."]

\* C21: a request one of whose store or hashing calls threw is answered 500
\* with the fixed message of its endpoint and nothing else in the body:
\* never 401, never a success status, never the text of the error.
C21_FailureIs500Generic ==
    lastResp.err = "store" =>
        Body(lastResp) = [status |-> 500, key |-> "message",
                          msg |-> GenericMessage[lastResp.op],
                          user |-> <<>>, token |-> <<>>]

\* the UPDATE (or the hash before it) of a change-password whose old
\* password had verified threw
C21_Witness ==
    /\ lastResp.op = "change-password"
    /\ lastResp.err = "store"
    /\ lastResp.old # Missing
    /\ \E i \in Ids : users[i].id = lastResp.uid /\ IsHashOf(users[i].password, lastResp.old)

\* C22: when a register request is answered with anything other than 201,
\* the table holds no row that this request inserted.
C22_RegisterNoPartialEffects ==
    [][(lastResp'.op = "register" /\ lastResp'.status # 201) =>
          \A l \in At("reg_select") :
             CopiesIn(l, inflight') < CopiesIn(l, inflight) =>
                \A i \in DOMAIN users' : users'[i].email # l.email]_vars

\* C23: what the middleware answers for an expired but validly signed token
\* differs from what it answers for a token with a bad signature.
C23_ExpiredDistinctFromInvalid ==
    lastResp.err = "TokenExpiredError" =>
        Body(lastResp) #
           Body(AuthFailed(lastResp.op, [err |-> "JsonWebTokenError", id |-> 0],
                           NoHeader, FALSE))

\* C24: a Google sign-in is answered with an account (the existing one of
\* that email, or a new one with onboarded = 0) and a backend session token.
C24_OAuthLink ==
    lastResp.op = "auth-google" =>
        /\ lastResp.status = 200
        /\ lastResp.token # <<>>
        /\ lastResp.user # <<>>

\* C25: a step changes the password hash of an existing account only if it
\* is the UPDATE of a change-password request that carried a token signed
\* for that account and whose oldPassword verified against the hash it read,
\* or the UPDATE of a reset-password request whose secret's fingerprint was
\* the account's stored, unexpired fingerprint when it was looked up; every
\* other step leaves every existing hash as it was.
C25_PasswordChangeAuthorized ==
    /\ [][\A i \in DOMAIN users :
             /\ i \in DOMAIN users'
             /\ users'[i].password # users[i].password =>
                   /\ lastResp'.status = 200
                   /\ \/ /\ lastResp'.op = "change-password"
                         /\ \E l \in At("cp_update") :
                               /\ CopiesIn(l, inflight') < CopiesIn(l, inflight)
                               /\ l.uid = users[i].id
                      \/ /\ lastResp'.op = "reset-password"
                         /\ \E l \in At("rp_update") :
                               /\ CopiesIn(l, inflight') < CopiesIn(l, inflight)
                               /\ l.uid = users[i].id]_vars
    /\ [][\A l \in At("cp_update")' :
             CopiesIn(l, inflight') > CopiesIn(l, inflight) =>
                /\ l.jwt # <<>>
                /\ l.jwt[1] = JwtSign(l.uid, l.jwt[1].iat)
                /\ now < l.jwt[1].exp
                /\ \E i \in Ids : /\ users[i].id = l.uid
                                  /\ IsHashOf(users[i].password, l.old)]_vars
    /\ [][\A l \in At("rp_update")' :
             CopiesIn(l, inflight') > CopiesIn(l, inflight) =>
                \E i \in Ids : /\ users[i].id = l.uid
                               /\ users[i].resetToken = <<"sha256">> \o l.token
                               /\ now < users[i].resetTokenExpiry]_vars

\* the first account's hash was replaced by a reset-password and then the
\* second account's by a change-password
C25_Witness ==
    /\ lastResp.op = "change-password"
    /\ lastResp.status = 200
    /\ lastResp.uid = 2
    /\ okResets[1] = 1
    /\ Len(users) = 2
    /\ \A i \in Ids : users[i].password # UsedTable[i].password

\* C26: a login with both fields present, when no call fails, is answered
\* 200 with a token exactly when the account of that email exists and the
\* submitted password is the one whose hash was stored last for it (by
\* register, change-password or reset-password), and 401 otherwise: after a
\* change or a reset the previous password is refused.
C26_LoginTracksPassword ==
    (lastResp.op = "login" /\ ~lastResp.missing /\ lastResp.err # "store") =>
        LET current == \E i \in Ids : /\ users[i].email = lastResp.email
                                      /\ IsHashOf(users[i].password, lastResp.password)
        IN  /\ current => (lastResp.status = 200 /\ lastResp.token # <<>>)
            /\ ~current => (lastResp.status = 401 /\ lastResp.token = <<>>)

\* the first account's password was replaced (by a change or a reset), and a
\* login with its previous password was then answered 401
C26_Witness ==
    /\ lastResp.op = "login"
    /\ lastResp.status = 401
    /\ lastResp.email = "a@x.com"
    /\ lastResp.password = "pw1"
    /\ users # FreshTable
    /\ users[1].password # UsedTable[1].password
    /\ IsHashOf(users[1].password, "pw2")

\* the account a generated secret was made for
AccountOf(secret) == issuedTo[secret[2]]

\* a later forgot-password has stored another fingerprint for the same account
Superseded(p) ==
    \E q \in DOMAIN written :
       q > p /\ AccountOf(written[q].secret) = AccountOf(written[p].secret)

\* a reset-password presenting the secret now would pass the lookup
Redeemable(secret) == SelectByResetToken(Sha256(secret)) # <<>>

\* C27: per account at most one secret passes the lookup of reset-password
\* at any time; once a later forgot-password for the account has stored its
\* fingerprint, an earlier secret no longer passes it, and a reset-password
\* request presenting it from then on is answered 400 'Invalid or expired
\* password reset token.' (unless a field is missing or the store fails).
C27_OneRedeemableSecret ==
    /\ [](\A p \in DOMAIN written : Superseded(p) => ~Redeemable(written[p].secret))
    /\ [](\A i \in Ids :
            Cardinality({k \in 1..Len(issuedTo) :
                           /\ issuedTo[k] = users[i].id
                           /\ Redeemable(RandomBytes(k))}) <= 1)
    /\ [][(/\ lastResp'.op = "reset-password"
           /\ nreq' = nreq + 1
           /\ ~lastResp'.missing
           /\ lastResp'.err # "store"
           /\ \E p \in DOMAIN written :
                 <<written[p].secret>> = lastResp'.secret /\ Superseded(p))
          => /\ lastResp'.status = 400
             /\ lastResp'.msg = "Invalid or expired password reset token."]_vars
    /\ [][\A l \in At("rp_update")' :
             CopiesIn(l, inflight') > CopiesIn(l, inflight) =>
                ~\E p \in DOMAIN written : written[p].secret = l.token /\ Superseded(p)]_vars

\* a second forgot-password for the first account has stored its fingerprint,
\* and a reset-password presenting the first secret, not yet expired, was
\* then answered 400
C27_Witness ==
    /\ lastResp.op = "reset-password"
    /\ lastResp.line = 251
    /\ lastResp.secret = <<RandomBytes(1)>>
    /\ Len(written) = 2
    /\ Superseded(1)
    /\ now < written[1].expiry
    /\ Redeemable(written[2].secret)

\* C28: a secret whose fingerprint forgot-password has stored passes the
\* lookup of reset-password for as long as it has not expired, has not been
\* redeemed, and no later forgot-password for its account has completed,
\* whatever other requests run in between.
C28_SecretStaysRedeemable ==
    \A p \in DOMAIN written :
       (/\ now < written[p].expiry
        /\ okResets[written[p].secret[2]] = 0
        /\ ~Superseded(p))
       => Redeemable(written[p].secret)

\* C29: a step that answers a login, a forgot-password for an email with no
\* account, or a reset-password with 400 changes no row; the steps of a
\* forgot-password for a registered email change nothing but the resetToken
\* and resetTokenExpiry of that one account.
C29_ReadMostlyFrame ==
    [][/\ lastResp'.op = "login" => users' = users
       /\ (lastResp'.op = "forgot-password" /\ ~lastResp'.found) => users' = users
       /\ (lastResp'.op = "reset-password" /\ lastResp'.status = 400) => users' = users
       /\ \A l \in At("fp_update")' :
             CopiesIn(l, inflight') > CopiesIn(l, inflight) => users' = users
       /\ \A l \in At("fp_update") :
             CopiesIn(l, inflight') < CopiesIn(l, inflight) =>
                /\ lastResp'.op = "forgot-password"
                /\ DOMAIN users' = DOMAIN users
                /\ \A i \in Ids :
                      IF users[i].id = l.uid
                      THEN users'[i] = [users[i] EXCEPT
                                          !.resetToken = users'[i].resetToken,
                                          !.resetTokenExpiry = users'[i].resetTokenExpiry]
                      ELSE users'[i] = users[i]]_vars

\* a forgot-password for the second, onboarded account has stored a
\* fingerprint on its row; the rest of that row and the first account's row
\* are as they were
C29_Witness ==
    /\ lastResp.op = "forgot-password"
    /\ lastResp.found
    /\ lastResp.status = 200
    /\ nreq = 1
    /\ users # FreshTable
    /\ users[1] = UsedTable[1]
    /\ users[2].resetToken = Sha256(RandomBytes(2))
    /\ users[2].onboarded = 1

\* C30: every submission of the Profile page's change-password form ends with
\* the loading flag back at false, whatever the session holds and whatever the
\* backend answers: once no submission is being handled, whether the handler
\* ran to its end or returned early, the submit button is enabled again.
C30_SubmitClearsLoading == profile.pc = "idle" => ~profile.loading

====
